---- MODULE Spec2Model ----
(***************************************************************************)
(* Model of the Spotify backend proxy (express application).  Each request *)
(* slot runs one route handler: the handler runs synchronously up to its   *)
(* single `await axios...` and is resumed when that call settles.          *)
(*                                                                         *)
(* JavaScript strings are sequences of tokens (<<"Bearer ", "T1">> is the  *)
(* string "Bearer T1"); numbers are fixed-point, n standing for n / Scale. *)
(***************************************************************************)
EXTENDS Integers, Sequences, FiniteSets, TLC

\* ---------------------------------------------------------------- bounds
MaxReq == 2          \* request slots that can be in flight together
Scale == 10          \* fixed-point denominator of JSON numbers
MaxNum == 15         \* numbers range over -MaxNum..MaxNum (in 1/Scale units)

Requests == 1..MaxReq

\* ------------------------------------------------------ JavaScript values
JSV(k, s, n) == [k |-> k, s |-> s, n |-> n]
Undefined == JSV("undefined", <<>>, 0)
Null == JSV("null", <<>>, 0)
NaN == JSV("NaN", <<>>, 0)
Str(s) == JSV("string", s, 0)
Num(n) == JSV("number", <<>>, n)

\* ToBoolean: undefined, null, NaN, "" and 0 are falsy.
Truthy(v) ==
  CASE v.k = "string" -> v.s # <<>>
    [] v.k = "number" -> v.n # 0
    [] OTHER -> FALSE

\* String.prototype.replace(pat, ''): drops the first occurrence of pat.
ReplaceFirst(s, pat) ==
  LET hits == {i \in 1..Len(s) : s[i] = pat}
  IN IF hits = {} THEN s
     ELSE LET i == CHOOSE j \in hits : \A h \in hits : j <= h
          IN SubSeq(s, 1, i - 1) \o SubSeq(s, i + 1, Len(s))

\* String.prototype.includes(pat ++ ":"): the token pat directly before a ":".
IncludesBeforeColon(s, pat) ==
  \E i \in 1..(Len(s) - 1) : s[i] = pat /\ s[i + 1] = ":"

\* Math.floor on a JSON value (ToNumber first: null is 0); result in units.
\* faulty variant: Math.trunc in place of Math.floor
MathFloorTrunc(v) ==
  IF v.k = "number"
    THEN Num(IF v.n >= 0 THEN v.n \div Scale ELSE -((-v.n) \div Scale))
    ELSE IF v.k = "null" THEN Num(0) ELSE NaN
MathFloor(v) ==
  IF v.k = "number" THEN Num(v.n \div Scale)
  ELSE IF v.k = "null" THEN Num(0) ELSE NaN

\* ------------------------------------------------------- request inputs
BlankReq ==
  [ep |-> "none", authorization |-> Undefined, code |-> Undefined,
   error |-> Undefined, q |-> Undefined, uri |-> Undefined,
   position_ms |-> Undefined, volume_percent |-> Undefined]

ProxyEndpoints ==
  {"playlists", "search", "play", "pause", "next", "previous", "current",
   "seek", "volume"}

AuthHeaders ==
  {Undefined, Str(<<>>), Str(<<"Bearer ">>), Str(<<"Bearer ", "T1">>),
   Str(<<"Bearer ", "T2">>), Str(<<"T1">>)}
ConcAuthHeaders == {Undefined, Str(<<"Bearer ", "T1">>), Str(<<"Bearer ", "T2">>)}

QueryStrings == {Undefined, Str(<<>>), Str(<<"daft punk">>)}
Codes == {Undefined, Str(<<>>), Str(<<"abc123">>)}
Errors == {Undefined, Str(<<>>), Str(<<"access_denied">>)}

TrackUri == <<"spotify", ":", "track", ":", "123">>
PlaylistUri == <<"spotify", ":", "playlist", ":", "xyz">>
AlbumUri == <<"spotify", ":", "album", ":", "abc">>
Uris ==
  {Undefined, Str(<<>>), Str(TrackUri), Str(PlaylistUri), Str(AlbumUri), Num(5)}
ConcUris == {Undefined, Str(TrackUri), Num(5)}

Numbers ==
  {Undefined, Null} \cup {Num(n) : n \in {m \in -MaxNum..MaxNum : m % 5 = 0}}
    \cup {Num(1500 * Scale + 7)}
ConcNumbers == {Undefined, Num(MaxNum)}

\* ------------------------------------------------------ upstream outcomes
Data(label, at, rt, ex) ==
  [label |-> label, access_token |-> at, refresh_token |-> rt, expires_in |-> ex]
NoData == Data("undefined", Undefined, Undefined, Undefined)
NoResponse == [responded |-> FALSE, status |-> 0, data |-> NoData]
Responded(st, d) == [responded |-> TRUE, status |-> st, data |-> d]

ResourceOutcomes ==
  {NoResponse,
   Responded(200, Data("payload", Undefined, Undefined, Undefined)),
   Responded(204, Data("empty", Undefined, Undefined, Undefined)),
   Responded(401, Data("errbody", Undefined, Undefined, Undefined)),
   Responded(404, Data("errbody", Undefined, Undefined, Undefined))}
ConcOutcomes ==
  {NoResponse,
   Responded(200, Data("payload", Undefined, Undefined, Undefined)),
   Responded(404, Data("errbody", Undefined, Undefined, Undefined))}
TokenOutcomes ==
  {NoResponse,
   Responded(400, Data("errbody", Undefined, Undefined, Undefined)),
   Responded(200, Data("tokens", Str(<<"T">>), Str(<<"R">>), Num(3600))),
   Responded(200, Data("tokens", Str(<<"T">>), Undefined, Num(3600)))}

\* axios settles its promise by validateStatus (default: 2xx resolves); a
\* transport failure rejects with no error.response.
AxiosResolves(o) == o.responded /\ o.status >= 200 /\ o.status < 300

\* ------------------------------------------------------------ the state
VARIABLES pc, req, token, calls, sent, upstream
vars == <<pc, req, token, calls, sent, upstream>>

Init ==
  /\ pc = [r \in Requests |-> "idle"]
  /\ req = [r \in Requests |-> BlankReq]
  /\ token = [r \in Requests |-> Undefined]
  /\ calls = [r \in Requests |-> <<>>]
  /\ sent = [r \in Requests |-> <<>>]
  /\ upstream = [r \in Requests |-> NoResponse]

\* ------------------------------------------------- responses and calls
Body(t, error, details, data) ==
  [t |-> t, error |-> error, details |-> details, data |-> data]
ErrBody(msg) == Body("error", msg, "absent", "absent")
ErrDetails(msg, details) == Body("error", msg, details, "absent")
SuccessBody == Body("success", "absent", "absent", "absent")
RelayBody(data) == Body("relay", "absent", "absent", data)
NothingPlaying == Body("nothing_playing", "absent", "absent", "absent")
NoBody == Body("none", "absent", "absent", "absent")

\* res.status(status).json(body); res.json(body) is status 200.
JsonRes(status, body) ==
  [kind |-> "json", status |-> status, body |-> body, params |-> <<>>]
\* res.redirect(`${FRONTEND_URL}/?...`): express answers 302.
Param(key, value) == [key |-> key, value |-> value]
RedirectRes(params) ==
  [kind |-> "redirect", status |-> 302, body |-> NoBody, params |-> params]

Payload(kind, v) == [kind |-> kind, v |-> v]
Call(method, url, arg, scheme, credentials, payload) ==
  [method |-> method, url |-> url, arg |-> arg, scheme |-> scheme,
   credentials |-> credentials, payload |-> payload]
BearerCall(method, url, arg, tok, payload) ==
  Call(method, url, arg, "Bearer", tok, payload)

\* ------------------------------------------------------ handler pieces
\* req.headers.authorization?.replace('Bearer ', '')
ExtractToken(auth) ==
  IF auth.k = "undefined" THEN Undefined ELSE Str(ReplaceFirst(auth.s, "Bearer "))

\* if (!token)
\* faulty variant: token === '' in place of !token
NoTokenEmptyOnly(tok) == tok.k = "string" /\ tok.s = <<>>
NoToken(tok) == ~Truthy(tok)

\* if (!query)
NoQuery(q) == ~Truthy(q)

\* if (position_ms === undefined), if (volume_percent === undefined)
\* faulty variant: the presence check left out
IsMissingNever(v) == FALSE
IsMissing(v) == v.k = "undefined"

\* error.response?.status || 500
\* faulty variant: the upstream status dropped
ErrorStatusAlways500(o) == 500
ErrorStatus(o) == IF o.responded /\ o.status # 0 THEN o.status ELSE 500

\* error.response?.data
ErrorData(o) == IF o.responded THEN o.data.label ELSE "undefined"

\* res.status(error.response?.status || 500).json({error: msg, details: ...})
ProxyCatch(msg, o) == JsonRes(ErrorStatus(o), ErrDetails(msg, ErrorData(o)))

Unauthorized == JsonRes(401, ErrBody("No token provided"))

\* The body built by /api/play; `uri.includes` throws a TypeError when uri is
\* truthy and has no includes method (a number).
\* faulty variant: no track classification
PlayBodyAlwaysContext(uri) ==
  IF Truthy(uri)
    THEN [throws |-> FALSE, payload |-> Payload("context_uri", uri)]
    ELSE [throws |-> FALSE, payload |-> Payload("empty", Undefined)]
PlayBody(uri) ==
  IF Truthy(uri) /\ uri.k # "string"
    THEN [throws |-> TRUE, payload |-> Payload("empty", Undefined)]
  ELSE IF Truthy(uri) /\ IncludesBeforeColon(uri.s, "track")
    THEN [throws |-> FALSE, payload |-> Payload("uris", uri)]
  ELSE IF Truthy(uri)
    THEN [throws |-> FALSE, payload |-> Payload("context_uri", uri)]
  ELSE [throws |-> FALSE, payload |-> Payload("empty", Undefined)]

\* ------------------------------------------------------- state updates
Reply(r, rq, tok, res) ==
  /\ pc' = [pc EXCEPT ![r] = "done"]
  /\ req' = [req EXCEPT ![r] = rq]
  /\ token' = [token EXCEPT ![r] = tok]
  /\ sent' = [sent EXCEPT ![r] = Append(@, res)]
  /\ UNCHANGED <<calls, upstream>>

Suspend(r, rq, tok, call) ==
  /\ pc' = [pc EXCEPT ![r] = "awaiting"]
  /\ req' = [req EXCEPT ![r] = rq]
  /\ token' = [token EXCEPT ![r] = tok]
  /\ calls' = [calls EXCEPT ![r] = Append(@, call)]
  /\ UNCHANGED <<sent, upstream>>

Resume(r, o, res) ==
  /\ pc' = [pc EXCEPT ![r] = "done"]
  /\ upstream' = [upstream EXCEPT ![r] = o]
  /\ sent' = [sent EXCEPT ![r] = Append(@, res)]
  /\ UNCHANGED <<req, token, calls>>

Awaiting(r, ep) == pc[r] = "awaiting" /\ req[r].ep = ep

\* ------------------------------------------------------- GET /callback
\* The early returns of the callback: the redirect sent before any call, or
\* none when the handler goes on to the token exchange.
\* faulty variant: the error check left out
CallbackEarlyIgnoresError(code, error) ==
  IF ~Truthy(code)
    THEN [returns |-> TRUE, res |-> RedirectRes(<<Param("error", Str(<<"no_code">>))>>)]
    ELSE [returns |-> FALSE, res |-> RedirectRes(<<>>)]
\* faulty variant: the code check placed before the error check
CallbackEarlyCodeFirst(code, error) ==
  IF ~Truthy(code)
    THEN [returns |-> TRUE, res |-> RedirectRes(<<Param("error", Str(<<"no_code">>))>>)]
  ELSE IF Truthy(error)
    THEN [returns |-> TRUE, res |-> RedirectRes(<<Param("error", error)>>)]
  ELSE [returns |-> FALSE, res |-> RedirectRes(<<>>)]
CallbackEarly(code, error) ==
  IF Truthy(error)
    THEN [returns |-> TRUE, res |-> RedirectRes(<<Param("error", error)>>)]
  ELSE IF ~Truthy(code)
    THEN [returns |-> TRUE, res |-> RedirectRes(<<Param("error", Str(<<"no_code">>))>>)]
  ELSE [returns |-> FALSE, res |-> RedirectRes(<<>>)]

TokenExchangeCall(code) ==
  Call("POST", "accounts/api/token", Undefined, "Basic",
       Str(<<"CLIENT_ID", ":", "CLIENT_SECRET">>), Payload("form", code))

\* The redirect of the try block: access_token, then refresh_token if truthy.
\* faulty variant: every field of the token response forwarded
TokensRedirectForwardsAll(d) ==
  RedirectRes(<<Param("access_token", d.access_token),
                Param("refresh_token", d.refresh_token),
                Param("expires_in", d.expires_in)>>)
TokensRedirect(d) ==
  RedirectRes(<<Param("access_token", d.access_token)>>
              \o (IF Truthy(d.refresh_token)
                    THEN <<Param("refresh_token", d.refresh_token)>>
                    ELSE <<>>))

AuthFailedRedirect == RedirectRes(<<Param("error", Str(<<"auth_failed">>))>>)

Handle_callback(r, code, error) ==
  /\ pc[r] = "idle"
  /\ LET rq == [BlankReq EXCEPT !.ep = "callback", !.code = code, !.error = error]
         early == CallbackEarly(code, error)
     IN IF early.returns
          THEN Reply(r, rq, Undefined, early.res)
          ELSE Suspend(r, rq, Undefined, TokenExchangeCall(code))

Settle_callback(r, o) ==
  /\ Awaiting(r, "callback")
  /\ IF AxiosResolves(o)
       THEN Resume(r, o, TokensRedirect(o.data))
       ELSE Resume(r, o, AuthFailedRedirect)

\* --------------------------------------------------- GET /api/playlists
Handle_playlists(r, auth) ==
  /\ pc[r] = "idle"
  /\ LET rq == [BlankReq EXCEPT !.ep = "playlists", !.authorization = auth]
         tok == ExtractToken(auth)
     IN IF NoToken(tok)
          THEN Reply(r, rq, tok, Unauthorized)
          ELSE Suspend(r, rq, tok,
                 BearerCall("GET", "v1/me/playlists", Undefined, tok,
                            Payload("none", Undefined)))

Settle_playlists(r, o) ==
  /\ Awaiting(r, "playlists")
  /\ IF AxiosResolves(o)
       THEN Resume(r, o, JsonRes(200, RelayBody(o.data.label)))
       ELSE Resume(r, o, ProxyCatch("Failed to fetch playlists", o))

\* ------------------------------------------------------ GET /api/search
Handle_search(r, auth, q) ==
  /\ pc[r] = "idle"
  /\ LET rq == [BlankReq EXCEPT !.ep = "search", !.authorization = auth, !.q = q]
         tok == ExtractToken(auth)
     IN IF NoToken(tok)
          THEN Reply(r, rq, tok, Unauthorized)
        ELSE IF NoQuery(q)
          THEN Reply(r, rq, tok, JsonRes(400, ErrBody("No search query provided")))
        ELSE Suspend(r, rq, tok,
               BearerCall("GET", "v1/search", q, tok, Payload("none", Undefined)))

Settle_search(r, o) ==
  /\ Awaiting(r, "search")
  /\ IF AxiosResolves(o)
       THEN Resume(r, o, JsonRes(200, RelayBody(o.data.label)))
       ELSE Resume(r, o, ProxyCatch("Search failed", o))

\* ------------------------------------------------------- POST /api/play
Handle_play(r, auth, uri) ==
  /\ pc[r] = "idle"
  /\ LET rq == [BlankReq EXCEPT !.ep = "play", !.authorization = auth, !.uri = uri]
         tok == ExtractToken(auth)
         body == PlayBody(uri)
     IN IF NoToken(tok)
          THEN Reply(r, rq, tok, Unauthorized)
        ELSE IF body.throws
          \* the TypeError is caught by the handler's own catch block
          THEN Reply(r, rq, tok, ProxyCatch("Playback failed", NoResponse))
        ELSE Suspend(r, rq, tok,
               BearerCall("PUT", "v1/me/player/play", Undefined, tok, body.payload))

Settle_play(r, o) ==
  /\ Awaiting(r, "play")
  /\ IF AxiosResolves(o)
       THEN Resume(r, o, JsonRes(200, SuccessBody))
     ELSE IF o.responded /\ o.status = 404
       THEN Resume(r, o,
              JsonRes(404, ErrDetails(
                "No active device found. Please open Spotify on a device first.",
                ErrorData(o))))
     ELSE Resume(r, o, ProxyCatch("Playback failed", o))

\* --------------------------------- POST /api/pause, /api/next, /api/previous
Handle_pause(r, auth) ==
  /\ pc[r] = "idle"
  /\ LET rq == [BlankReq EXCEPT !.ep = "pause", !.authorization = auth]
         tok == ExtractToken(auth)
     IN IF NoToken(tok)
          THEN Reply(r, rq, tok, Unauthorized)
          ELSE Suspend(r, rq, tok,
                 BearerCall("PUT", "v1/me/player/pause", Undefined, tok,
                            Payload("empty", Undefined)))

Settle_pause(r, o) ==
  /\ Awaiting(r, "pause")
  /\ IF AxiosResolves(o)
       THEN Resume(r, o, JsonRes(200, SuccessBody))
       ELSE Resume(r, o, ProxyCatch("Pause failed", o))

Handle_next(r, auth) ==
  /\ pc[r] = "idle"
  /\ LET rq == [BlankReq EXCEPT !.ep = "next", !.authorization = auth]
         tok == ExtractToken(auth)
     IN IF NoToken(tok)
          THEN Reply(r, rq, tok, Unauthorized)
          ELSE Suspend(r, rq, tok,
                 BearerCall("POST", "v1/me/player/next", Undefined, tok,
                            Payload("empty", Undefined)))

Settle_next(r, o) ==
  /\ Awaiting(r, "next")
  /\ IF AxiosResolves(o)
       THEN Resume(r, o, JsonRes(200, SuccessBody))
       ELSE Resume(r, o, ProxyCatch("Next track failed", o))

Handle_previous(r, auth) ==
  /\ pc[r] = "idle"
  /\ LET rq == [BlankReq EXCEPT !.ep = "previous", !.authorization = auth]
         tok == ExtractToken(auth)
     IN IF NoToken(tok)
          THEN Reply(r, rq, tok, Unauthorized)
          ELSE Suspend(r, rq, tok,
                 BearerCall("POST", "v1/me/player/previous", Undefined, tok,
                            Payload("empty", Undefined)))

Settle_previous(r, o) ==
  /\ Awaiting(r, "previous")
  /\ IF AxiosResolves(o)
       THEN Resume(r, o, JsonRes(200, SuccessBody))
       ELSE Resume(r, o, ProxyCatch("Previous track failed", o))

\* ----------------------------------------------------- GET /api/current
Handle_current(r, auth) ==
  /\ pc[r] = "idle"
  /\ LET rq == [BlankReq EXCEPT !.ep = "current", !.authorization = auth]
         tok == ExtractToken(auth)
     IN IF NoToken(tok)
          THEN Reply(r, rq, tok, Unauthorized)
          ELSE Suspend(r, rq, tok,
                 BearerCall("GET", "v1/me/player", Undefined, tok,
                            Payload("none", Undefined)))

Settle_current(r, o) ==
  /\ Awaiting(r, "current")
  /\ IF AxiosResolves(o)
       THEN Resume(r, o, JsonRes(200, RelayBody(o.data.label)))
     ELSE IF o.responded /\ o.status = 204
       THEN Resume(r, o, JsonRes(200, NothingPlaying))
     ELSE Resume(r, o, ProxyCatch("Failed to get playback state", o))

\* ----------------------------------------- POST /api/seek, POST /api/volume
Handle_seek(r, auth, position_ms) ==
  /\ pc[r] = "idle"
  /\ LET rq == [BlankReq EXCEPT !.ep = "seek", !.authorization = auth,
                                !.position_ms = position_ms]
         tok == ExtractToken(auth)
     IN IF NoToken(tok)
          THEN Reply(r, rq, tok, Unauthorized)
        ELSE IF IsMissing(position_ms)
          THEN Reply(r, rq, tok, JsonRes(400, ErrBody("No position provided")))
        ELSE Suspend(r, rq, tok,
               BearerCall("PUT", "v1/me/player/seek", MathFloor(position_ms), tok,
                          Payload("empty", Undefined)))

Settle_seek(r, o) ==
  /\ Awaiting(r, "seek")
  /\ IF AxiosResolves(o)
       THEN Resume(r, o, JsonRes(200, SuccessBody))
       ELSE Resume(r, o, ProxyCatch("Seek failed", o))

Handle_volume(r, auth, volume_percent) ==
  /\ pc[r] = "idle"
  /\ LET rq == [BlankReq EXCEPT !.ep = "volume", !.authorization = auth,
                                !.volume_percent = volume_percent]
         tok == ExtractToken(auth)
     IN IF NoToken(tok)
          THEN Reply(r, rq, tok, Unauthorized)
        ELSE IF IsMissing(volume_percent)
          THEN Reply(r, rq, tok, JsonRes(400, ErrBody("No volume provided")))
        ELSE Suspend(r, rq, tok,
               BearerCall("PUT", "v1/me/player/volume", MathFloor(volume_percent),
                          tok, Payload("empty", Undefined)))

Settle_volume(r, o) ==
  /\ Awaiting(r, "volume")
  /\ IF AxiosResolves(o)
       THEN Resume(r, o, JsonRes(200, SuccessBody))
       ELSE Resume(r, o, ProxyCatch("Volume change failed", o))

\* The response has been sent and the handler has returned: nothing of the
\* request is kept, the slot serves the next connection.
Close(r) ==
  /\ pc[r] = "done"
  /\ pc' = [pc EXCEPT ![r] = "idle"]
  /\ req' = [req EXCEPT ![r] = BlankReq]
  /\ token' = [token EXCEPT ![r] = Undefined]
  /\ calls' = [calls EXCEPT ![r] = <<>>]
  /\ sent' = [sent EXCEPT ![r] = <<>>]
  /\ upstream' = [upstream EXCEPT ![r] = NoResponse]

\* ------------------------------------------------------ specifications
\* Spec: requests served one at a time, over the full input sets.
Quiet(r) == \A o \in Requests \ {r} : pc[o] = "idle"

Next ==
  \/ \E r \in Requests, c \in Codes, e \in Errors : Quiet(r) /\ Handle_callback(r, c, e)
  \/ \E r \in Requests, o \in TokenOutcomes : Settle_callback(r, o)
  \/ \E r \in Requests, a \in AuthHeaders : Quiet(r) /\ Handle_playlists(r, a)
  \/ \E r \in Requests, o \in ResourceOutcomes : Settle_playlists(r, o)
  \/ \E r \in Requests, a \in AuthHeaders, q \in QueryStrings :
       Quiet(r) /\ Handle_search(r, a, q)
  \/ \E r \in Requests, o \in ResourceOutcomes : Settle_search(r, o)
  \/ \E r \in Requests, a \in AuthHeaders, u \in Uris : Quiet(r) /\ Handle_play(r, a, u)
  \/ \E r \in Requests, o \in ResourceOutcomes : Settle_play(r, o)
  \/ \E r \in Requests, a \in AuthHeaders : Quiet(r) /\ Handle_pause(r, a)
  \/ \E r \in Requests, o \in ResourceOutcomes : Settle_pause(r, o)
  \/ \E r \in Requests, a \in AuthHeaders : Quiet(r) /\ Handle_next(r, a)
  \/ \E r \in Requests, o \in ResourceOutcomes : Settle_next(r, o)
  \/ \E r \in Requests, a \in AuthHeaders : Quiet(r) /\ Handle_previous(r, a)
  \/ \E r \in Requests, o \in ResourceOutcomes : Settle_previous(r, o)
  \/ \E r \in Requests, a \in AuthHeaders : Quiet(r) /\ Handle_current(r, a)
  \/ \E r \in Requests, o \in ResourceOutcomes : Settle_current(r, o)
  \/ \E r \in Requests, a \in AuthHeaders, n \in Numbers : Quiet(r) /\ Handle_seek(r, a, n)
  \/ \E r \in Requests, o \in ResourceOutcomes : Settle_seek(r, o)
  \/ \E r \in Requests, a \in AuthHeaders, n \in Numbers :
       Quiet(r) /\ Handle_volume(r, a, n)
  \/ \E r \in Requests, o \in ResourceOutcomes : Settle_volume(r, o)
  \/ \E r \in Requests : Close(r)

Spec == Init /\ [][Next]_vars

\* SpecConc: the resource proxy handlers interleaved freely over the request
\* slots, over reduced input sets.
NextConc ==
  \/ \E r \in Requests, a \in ConcAuthHeaders : Handle_playlists(r, a)
  \/ \E r \in Requests, o \in ConcOutcomes : Settle_playlists(r, o)
  \/ \E r \in Requests, a \in ConcAuthHeaders, q \in QueryStrings : Handle_search(r, a, q)
  \/ \E r \in Requests, o \in ConcOutcomes : Settle_search(r, o)
  \/ \E r \in Requests, a \in ConcAuthHeaders, u \in ConcUris : Handle_play(r, a, u)
  \/ \E r \in Requests, o \in ConcOutcomes : Settle_play(r, o)
  \/ \E r \in Requests, a \in ConcAuthHeaders : Handle_pause(r, a)
  \/ \E r \in Requests, o \in ConcOutcomes : Settle_pause(r, o)
  \/ \E r \in Requests, a \in ConcAuthHeaders : Handle_next(r, a)
  \/ \E r \in Requests, o \in ConcOutcomes : Settle_next(r, o)
  \/ \E r \in Requests, a \in ConcAuthHeaders : Handle_previous(r, a)
  \/ \E r \in Requests, o \in ConcOutcomes : Settle_previous(r, o)
  \/ \E r \in Requests, a \in ConcAuthHeaders : Handle_current(r, a)
  \/ \E r \in Requests, o \in ConcOutcomes : Settle_current(r, o)
  \/ \E r \in Requests, a \in ConcAuthHeaders, n \in ConcNumbers : Handle_seek(r, a, n)
  \/ \E r \in Requests, o \in ConcOutcomes : Settle_seek(r, o)
  \/ \E r \in Requests, a \in ConcAuthHeaders, n \in ConcNumbers : Handle_volume(r, a, n)
  \/ \E r \in Requests, o \in ConcOutcomes : Settle_volume(r, o)
  \/ \E r \in Requests : Close(r)

SpecConc == Init /\ [][NextConc]_vars

\* ============================================================== claims
Started(r) == pc[r] # "idle"
Done(r) == pc[r] = "done"
IsProxy(r) == req[r].ep \in ProxyEndpoints
IsCallback(r) == req[r].ep = "callback"
Present(v) == v.k # "undefined"
HasKey(params, key) == \E i \in 1..Len(params) : params[i].key = key
\* the upstream call was made and did not succeed
UpstreamFailed(r) ==
  /\ Done(r)
  /\ Len(calls[r]) = 1
  /\ ~(upstream[r].responded /\ upstream[r].status \in 200..299)

\* C1: a resource proxy request without an Authorization header is answered
\* 401 {error: "No token provided"} and makes no upstream call, whatever its
\* other parameters are.
C1_NoHeaderIs401 ==
  \A r \in Requests :
    (IsProxy(r) /\ ~Present(req[r].authorization)) =>
      /\ Done(r)
      /\ calls[r] = <<>>
      /\ sent[r] = <<JsonRes(401, ErrBody("No token provided"))>>

C1_Witness ==
  \E r \in Requests :
    /\ req[r].ep = "volume" /\ Done(r)
    /\ ~Present(req[r].authorization)
    /\ Present(req[r].volume_percent)

\* C2 (as stated): every GET /callback performs exactly one outbound call and
\* ends with exactly one redirect, never a JSON body.
C2_AlwaysOneCall ==
  \A r \in Requests :
    (IsCallback(r) /\ Done(r)) =>
      /\ Len(calls[r]) = 1
      /\ Len(sent[r]) = 1
      /\ sent[r][1].kind = "redirect"

\* C2 (amended): GET /callback performs exactly one outbound call when it has
\* a non-empty code and no non-empty error, and none otherwise; it ends with
\* exactly one redirect and never sends a JSON body.
C2_AtMostOneCallOneRedirect ==
  \A r \in Requests :
    (IsCallback(r) /\ Started(r)) =>
      /\ Len(calls[r]) =
           (IF Truthy(req[r].code) /\ ~Truthy(req[r].error) THEN 1 ELSE 0)
      /\ \A i \in 1..Len(sent[r]) : sent[r][i].kind = "redirect"
      /\ Len(sent[r]) = (IF Done(r) THEN 1 ELSE 0)

C2_Witness ==
  \E r \in Requests :
    IsCallback(r) /\ Done(r) /\ Len(calls[r]) = 1 /\ ~upstream[r].responded

\* C3: GET /api/current whose upstream call returns no content (204) answers
\* 200 with {is_playing: false, item: null, progress_ms: 0}.
C3_NoContentNormalized ==
  \A r \in Requests :
    (/\ req[r].ep = "current" /\ Done(r) /\ Len(calls[r]) = 1
     /\ upstream[r].responded /\ upstream[r].status = 204) =>
      sent[r] = <<JsonRes(200, NothingPlaying)>>

\* C4 (as stated): with the error parameter present the callback redirects to
\* ?error=<value>, with neither error nor code present to ?error=no_code, and
\* in both cases no outbound call is made.
C4_ErrorPresentNoExchange ==
  \A r \in Requests :
    (IsCallback(r) /\ Started(r)) =>
      /\ Present(req[r].error) =>
           /\ calls[r] = <<>>
           /\ sent[r] = <<RedirectRes(<<Param("error", req[r].error)>>)>>
      /\ (~Present(req[r].error) /\ ~Present(req[r].code)) =>
           /\ calls[r] = <<>>
           /\ sent[r] = <<RedirectRes(<<Param("error", Str(<<"no_code">>))>>)>>

\* C4 (amended): with a non-empty error parameter (even if code is present)
\* the callback redirects to ?error=<value>; with no non-empty error and no
\* non-empty code it redirects to ?error=no_code; in both cases no outbound
\* call is made, and a token-exchange call is made only with a non-empty code
\* and no non-empty error.
C4_NonEmptyErrorNoExchange ==
  \A r \in Requests :
    (IsCallback(r) /\ Started(r)) =>
      /\ Truthy(req[r].error) =>
           /\ calls[r] = <<>>
           /\ sent[r] = <<RedirectRes(<<Param("error", req[r].error)>>)>>
      /\ (~Truthy(req[r].error) /\ ~Truthy(req[r].code)) =>
           /\ calls[r] = <<>>
           /\ sent[r] = <<RedirectRes(<<Param("error", Str(<<"no_code">>))>>)>>
      /\ calls[r] # <<>> => (Truthy(req[r].code) /\ ~Truthy(req[r].error))

C4_Witness ==
  \E r \in Requests :
    IsCallback(r) /\ Done(r) /\ Truthy(req[r].error) /\ Truthy(req[r].code)

\* C5: for a callback with a code and no error, a successful token exchange
\* redirects with access_token always, refresh_token iff upstream sent one,
\* and never the expiry; a failed exchange redirects to exactly
\* ?error=auth_failed.
C5_RedirectFollowsExchange ==
  \A r \in Requests :
    (IsCallback(r) /\ Done(r) /\ Truthy(req[r].code) /\ ~Truthy(req[r].error)) =>
      IF upstream[r].responded /\ upstream[r].status \in 200..299
        THEN /\ Len(sent[r]) = 1
             /\ sent[r][1].kind = "redirect"
             /\ sent[r][1].params[1] =
                  Param("access_token", upstream[r].data.access_token)
             /\ HasKey(sent[r][1].params, "refresh_token")
                  <=> Present(upstream[r].data.refresh_token)
             /\ \A i \in 1..Len(sent[r][1].params) :
                  /\ sent[r][1].params[i].key \in {"access_token", "refresh_token"}
                  /\ sent[r][1].params[i].key = "refresh_token" =>
                       sent[r][1].params[i].value = upstream[r].data.refresh_token
        ELSE sent[r] = <<RedirectRes(<<Param("error", Str(<<"auth_failed">>))>>)>>

C5_Witness ==
  \E r \in Requests :
    /\ IsCallback(r) /\ Done(r)
    /\ upstream[r].responded /\ upstream[r].status = 200
    /\ Present(upstream[r].data.refresh_token)

\* C6: with a bearer token, /api/search without a non-empty q, /api/seek
\* without position_ms and /api/volume without volume_percent answer 400 with
\* an error message and make no upstream call.
C6_MissingParamIs400 ==
  \A r \in Requests :
    (/\ Started(r) /\ Truthy(token[r])
     /\ \/ req[r].ep = "search" /\ ~Truthy(req[r].q)
        \/ req[r].ep = "seek" /\ ~Present(req[r].position_ms)
        \/ req[r].ep = "volume" /\ ~Present(req[r].volume_percent)) =>
      /\ Done(r)
      /\ calls[r] = <<>>
      /\ Len(sent[r]) = 1
      /\ sent[r][1].kind = "json"
      /\ sent[r][1].status = 400
      /\ sent[r][1].body.t = "error"
      /\ sent[r][1].body.error \notin {"absent", "No token provided"}

C6_Witness ==
  \E r \in Requests :
    req[r].ep = "seek" /\ Done(r) /\ Truthy(token[r]) /\ ~Present(req[r].position_ms)

\* C7: when the upstream call of a resource proxy handler fails, the response
\* carries the upstream status (500 when there was no upstream response) and
\* the body {error: <message of the operation>, details: <upstream body>};
\* no success body is sent.
OperationMessages(ep) ==
  CASE ep = "playlists" -> {"Failed to fetch playlists"}
    [] ep = "search" -> {"Search failed"}
    [] ep = "play" ->
         {"Playback failed",
          "No active device found. Please open Spotify on a device first."}
    [] ep = "pause" -> {"Pause failed"}
    [] ep = "next" -> {"Next track failed"}
    [] ep = "previous" -> {"Previous track failed"}
    [] ep = "current" -> {"Failed to get playback state"}
    [] ep = "seek" -> {"Seek failed"}
    [] ep = "volume" -> {"Volume change failed"}
    [] OTHER -> {}

C7_FailureRelaysStatus ==
  \A r \in Requests :
    (IsProxy(r) /\ UpstreamFailed(r)) =>
      /\ Len(sent[r]) = 1
      /\ sent[r][1].kind = "json"
      /\ sent[r][1].status =
           (IF upstream[r].responded THEN upstream[r].status ELSE 500)
      /\ sent[r][1].body.t = "error"
      /\ sent[r][1].body.error \in OperationMessages(req[r].ep)
      /\ sent[r][1].body.details =
           (IF upstream[r].responded THEN upstream[r].data.label ELSE "undefined")

C7_Witness ==
  \E r \in Requests :
    /\ req[r].ep = "play" /\ UpstreamFailed(r)
    /\ upstream[r].responded /\ upstream[r].status = 404

\* C8: the payload /api/play sends upstream is decided by uri alone: a track
\* URI (spotify:track:<id>) goes as {uris: [uri]}, any other URI as
\* {context_uri: uri}, and no uri gives the empty payload.
IsTrackUri(uri) == uri.k = "string" /\ Len(uri.s) >= 3 /\ uri.s[3] = "track"

C8_PlayPayloadByUri ==
  \A r \in Requests :
    (/\ req[r].ep = "play" /\ Started(r) /\ Truthy(token[r])
     /\ req[r].uri.k \in {"string", "undefined"}) =>
      /\ Len(calls[r]) = 1
      /\ calls[r][1].payload =
           (IF IsTrackUri(req[r].uri) THEN Payload("uris", req[r].uri)
            ELSE IF Truthy(req[r].uri) THEN Payload("context_uri", req[r].uri)
            ELSE Payload("empty", Undefined))

C8_Witness ==
  \E r \in Requests :
    req[r].ep = "play" /\ Len(calls[r]) = 1 /\ req[r].uri = Str(TrackUri)

\* C9 (as stated): the number given to /api/seek or /api/volume is sent with
\* its fractional part dropped (truncated toward zero), negative values too.
SentNumber(r) ==
  IF req[r].ep = "seek" THEN req[r].position_ms ELSE req[r].volume_percent
Truncated(n) == IF n >= 0 THEN n \div Scale ELSE -((-n) \div Scale)

C9_Truncated ==
  \A r \in Requests :
    (/\ req[r].ep \in {"seek", "volume"} /\ calls[r] # <<>>
     /\ SentNumber(r).k = "number") =>
      calls[r][1].arg = Num(Truncated(SentNumber(r).n))

\* C9 (amended): the number is rounded down to the greatest integer not above
\* it (Math.floor): the fractional part is dropped for values >= 0 (1500.7 is
\* sent as 1500), a negative fractional value goes to the next lower integer
\* (-0.5 is sent as -1).
C9_Floored ==
  \A r \in Requests :
    (/\ req[r].ep \in {"seek", "volume"} /\ calls[r] # <<>>
     /\ SentNumber(r).k = "number") =>
      /\ calls[r][1].arg.k = "number"
      /\ calls[r][1].arg.n * Scale <= SentNumber(r).n
      /\ SentNumber(r).n < (calls[r][1].arg.n + 1) * Scale
      /\ SentNumber(r).n >= 0 => calls[r][1].arg = Num(Truncated(SentNumber(r).n))

C9_Witness ==
  \E r \in Requests :
    /\ req[r].ep = "seek" /\ calls[r] # <<>>
    /\ SentNumber(r).k = "number"
    /\ SentNumber(r).n < 0 /\ SentNumber(r).n % Scale # 0

\* C10: under any interleaving, each resource proxy request that passes the
\* token and parameter checks issues exactly one upstream call, carrying that
\* request's own token.
PassesValidation(r) ==
  /\ IsProxy(r) /\ Started(r)
  /\ Truthy(ExtractToken(req[r].authorization))
  /\ req[r].ep = "search" => Truthy(req[r].q)
  /\ req[r].ep = "seek" => Present(req[r].position_ms)
  /\ req[r].ep = "volume" => Present(req[r].volume_percent)

C10_OneCallOwnToken ==
  \A r \in Requests :
    PassesValidation(r) =>
      /\ Len(calls[r]) = 1
      /\ calls[r][1].scheme = "Bearer"
      /\ calls[r][1].credentials = ExtractToken(req[r].authorization)

\* Supporting property: every upstream call a resource proxy request makes is
\* its only one and carries the token of its own Authorization header.
CallsCarryOwnToken ==
  \A r \in Requests :
    IsProxy(r) =>
      /\ Len(calls[r]) <= 1
      /\ \A i \in 1..Len(calls[r]) :
           /\ calls[r][i].scheme = "Bearer"
           /\ calls[r][i].credentials = ExtractToken(req[r].authorization)
====
